---- MODULE Spec2Model ----
(***************************************************************************)
(* Model of the roosterjs editor core: the node insertion placement        *)
(* algorithm (coreAPI/insertNode.ts) over a small DOM with live ranges,    *)
(* and the nested undo-snapshot transaction (IEditor.addUndoSnapshot).     *)
(***************************************************************************)
EXTENDS Integers, Sequences, FiniteSets, TLC

\* ------------------------------------------------------------------------
\* Bounds
\* ------------------------------------------------------------------------
MaxTextLen == 2     \* characters in each text node of the initial content
MaxDepth == 3       \* deepest nesting of addUndoSnapshot calls
MaxTxns == 2        \* outermost addUndoSnapshot calls in one behaviour
NumEditors == 3     \* editors that can be made the current editor
MaxCalls == 4       \* setCurrentEditor calls in one behaviour

\* ------------------------------------------------------------------------
\* The DOM: nodes are numbered, dom[n] = [tag, kids, data]
\* ------------------------------------------------------------------------
Body == 0           \* core.contentDiv.parentNode
ContentDiv == 1     \* core.contentDiv
NoNode == -1        \* null
PoolSize == 14
NodeIds == 0 .. PoolSize

FreeNode == [tag |-> "free", kids |-> <<>>, data |-> <<>>]
Elem(t, ks) == [tag |-> t, kids |-> ks, data |-> <<>>]
TextNode(s) == [tag |-> "#text", kids |-> <<>>, data |-> s]

NoEditor == 0       \* undefined, the holder before the first call, or null
Editors == 1 .. NumEditors

NoRange == [sc |-> NoNode, so |-> 0, ec |-> NoNode, eo |-> 0]
Rng(a, b, c, e) == [sc |-> a, so |-> b, ec |-> c, eo |-> e]
Collapsed(r) == r.sc = r.ec /\ r.so = r.eo

\* characters are numbers; every text node of the model has its own letters
Letters(base, len) == [i \in 1 .. len |-> base + i]

SeqRange(s) == {s[i] : i \in 1 .. Len(s)}
IndexIn(s, x) == CHOOSE i \in 1 .. Len(s) : s[i] = x
InsertAt(s, i, xs) == SubSeq(s, 1, i) \o xs \o SubSeq(s, i + 1, Len(s))
RemoveAt(s, i) == SubSeq(s, 1, i - 1) \o SubSeq(s, i + 1, Len(s))

Parent(d, n) ==
    IF \E p \in NodeIds : n \in SeqRange(d[p].kids)
    THEN CHOOSE p \in NodeIds : n \in SeqRange(d[p].kids)
    ELSE NoNode

\* 0-based index of n among its siblings
Index(d, n) == IndexIn(d[Parent(d, n)].kids, n) - 1

NodeLength(d, n) == IF d[n].tag = "#text" THEN Len(d[n].data) ELSE Len(d[n].kids)

RECURSIVE InclAncestor(_, _, _)
\* a is n or an ancestor of n
InclAncestor(d, a, n) ==
    IF n = NoNode THEN FALSE
    ELSE IF a = n THEN TRUE
    ELSE InclAncestor(d, a, Parent(d, n))

\* contains(container, contained) of roosterjs-editor-dom: strict descendant
contains(d, a, n) == n # NoNode /\ a # n /\ InclAncestor(d, a, n)

RECURSIVE Path(_, _)
Path(d, n) ==
    IF Parent(d, n) = NoNode THEN <<n>>
    ELSE Path(d, Parent(d, n)) \o <<Index(d, n)>>

RECURSIVE LexLess(_, _)
\* strict lexicographic order, a proper prefix is smaller
LexLess(a, b) ==
    IF Len(b) = 0 THEN FALSE
    ELSE IF Len(a) = 0 THEN TRUE
    ELSE IF a[1] # b[1] THEN a[1] < b[1]
    ELSE LexLess(Tail(a), Tail(b))

\* boundary point (c1, o1) is before (c2, o2) in document order
Before(d, c1, o1, c2, o2) == LexLess(Path(d, c1) \o <<o1>>, Path(d, c2) \o <<o2>>)

RECURSIVE Descendants(_, _)
RECURSIVE DescendantsSeq(_, _)
\* n and everything under it
Descendants(d, n) == {n} \cup DescendantsSeq(d, d[n].kids)
DescendantsSeq(d, ks) ==
    IF ks = <<>> THEN {} ELSE Descendants(d, Head(ks)) \cup DescendantsSeq(d, Tail(ks))

FreshNode(d) == CHOOSE n \in NodeIds : d[n].tag = "free" /\ \A m \in NodeIds : d[m].tag = "free" => n <= m

\* ------------------------------------------------------------------------
\* A world is the DOM together with the live Range objects that the DOM
\* keeps up to date while it is mutated: the selection's range, the
\* editor's cached range and one temporary range.
\* ------------------------------------------------------------------------
World(d, s, c, t) == [d |-> d, sel |-> s, cache |-> c, tmp |-> t]

\* apply a boundary-point map f(container, offset) = <<container, offset>> to a range
MapRange(r, f(_, _)) ==
    IF r.sc = NoNode THEN r
    ELSE LET s == f(r.sc, r.so)
             e == f(r.ec, r.eo)
         IN  Rng(s[1], s[2], e[1], e[2])

MapRanges(w, d2, f(_, _)) ==
    World(d2, MapRange(w.sel, f), MapRange(w.cache, f), MapRange(w.tmp, f))

\* DOM "remove": detach n from its parent
RemoveChildAt(w, p, i, n) ==
    LET d2 == [w.d EXCEPT ![p].kids = RemoveAt(@, i + 1)]
        f(c, o) == IF InclAncestor(w.d, n, c) THEN <<p, i>>
                   ELSE IF c = p /\ o > i THEN <<c, o - 1>>
                   ELSE <<c, o>>
    IN  MapRanges(w, d2, f)

RemoveNode(w, n) ==
    IF Parent(w.d, n) = NoNode THEN w
    ELSE RemoveChildAt(w, Parent(w.d, n), Index(w.d, n), n)

\* DOM "insert" of a detached, non-fragment node n into parent p at 0-based index i
InsertChildAt(w, p, i, n) ==
    LET d2 == [w.d EXCEPT ![p].kids = InsertAt(@, i, <<n>>)]
        f(c, o) == IF c = p /\ o > i THEN <<c, o + 1>> ELSE <<c, o>>
    IN  MapRanges(w, d2, f)

\* Node.insertBefore(node, ref); ref = NoNode is null (append).  A document
\* fragment gives its children and stays behind empty.
InsertChildrenAt(w, p, i, ks) ==
    LET d2 == [w.d EXCEPT ![p].kids = InsertAt(@, i, ks)]
        f(c, o) == IF c = p /\ o > i THEN <<c, o + Len(ks)>> ELSE <<c, o>>
    IN  MapRanges(w, d2, f)

\* 0-based index in p that a node inserted before ref gets; ref = NoNode is null
IndexBefore(d, p, ref) == IF ref = NoNode THEN Len(d[p].kids) ELSE Index(d, ref)

\* the insertion of a node that has no parent any more
InsertDetached(w, p, node, ref) == InsertChildAt(w, p, IndexBefore(w.d, p, ref), node)

InsertBefore(w, p, node, ref) ==
    IF w.d[node].tag = "#frag"
    THEN InsertChildrenAt([w EXCEPT !.d[node].kids = <<>>], p, IndexBefore(w.d, p, ref), w.d[node].kids)
    ELSE InsertDetached(RemoveNode(w, node), p, node, ref)

AppendChild(w, p, node) == InsertBefore(w, p, node, NoNode)

\* Text.splitText(off): the tail moves to a new text node, the next sibling
SplitTextAt(w, n, off, new, p, i) ==
    LET d2 == [w.d EXCEPT ![new] = TextNode(SubSeq(w.d[n].data, off + 1, Len(w.d[n].data))),
                          ![n].data = SubSeq(@, 1, off),
                          ![p].kids = InsertAt(@, i + 1, <<new>>)]
        f(c, o) == IF c = n /\ o > off THEN <<new, o - off>>
                   ELSE IF c = p /\ o >= i + 1 THEN <<c, o + 1>>
                   ELSE <<c, o>>
    IN  MapRanges(w, d2, f)

SplitText(w, n, off) == SplitTextAt(w, n, off, FreshNode(w.d), Parent(w.d, n), Index(w.d, n))

\* CharacterData "replace data" with the empty string: delete count characters at off
DeleteData(w, n, off, count) ==
    LET d2 == [w.d EXCEPT ![n].data = SubSeq(@, 1, off) \o SubSeq(@, off + count + 1, Len(@))]
        f(c, o) == IF c = n /\ o > off /\ o <= off + count THEN <<c, off>>
                   ELSE IF c = n /\ o > off + count THEN <<c, o - count>>
                   ELSE <<c, o>>
    IN  MapRanges(w, d2, f)

\* ------------------------------------------------------------------------
\* DOM Range operations on the live range named k ("sel", "cache" or "tmp")
\* ------------------------------------------------------------------------
SetRange(w, k, r) == [w EXCEPT ![k] = r]

RECURSIVE RemoveAll(_, _)
RemoveAll(w, ns) ==
    IF ns = {} THEN w
    ELSE LET n == CHOOSE x \in ns : TRUE
         IN  RemoveAll(RemoveNode(w, n), ns \ {n})

\* node n is contained in range r: it starts after r's start and ends before r's end
ContainedIn(d, r, n) ==
    /\ Before(d, r.sc, r.so, n, 0)
    /\ Before(d, n, NodeLength(d, n), r.ec, r.eo)

RECURSIVE RefForDelete(_, _, _)
\* the highest inclusive ancestor of n that is not an inclusive ancestor of e
RefForDelete(d, n, e) ==
    IF Parent(d, n) # NoNode /\ ~InclAncestor(d, Parent(d, n), e)
    THEN RefForDelete(d, Parent(d, n), e)
    ELSE n

\* Range.deleteContents()
\* the nodes of d that range r contains and whose parent it does not contain
ContainedTops(d, r) ==
    {n \in Descendants(d, ContentDiv) :
        ContainedIn(d, r, n) /\ ~(Parent(d, n) # Body /\ ContainedIn(d, r, Parent(d, n)))}

\* the tail of a text start node goes
DeleteStartTail(w, d, r) ==
    IF d[r.sc].tag = "#text" THEN DeleteData(w, r.sc, r.so, Len(d[r.sc].data) - r.so) ELSE w

\* the head of a text end node goes
DeleteEndHead(w, d, r) ==
    IF d[r.ec].tag = "#text" THEN DeleteData(w, r.ec, 0, r.eo) ELSE w

\* where the range collapses to after a deletion over several nodes
CollapsePoint(d, r, ref) ==
    IF InclAncestor(d, r.sc, r.ec) THEN <<r.sc, r.so>> ELSE <<Parent(d, ref), Index(d, ref) + 1>>

CollapseTo(w, k, pt) == SetRange(w, k, Rng(pt[1], pt[2], pt[1], pt[2]))

DeleteAcross(w, k, d, r) ==
    CollapseTo(DeleteEndHead(RemoveAll(DeleteStartTail(w, d, r), ContainedTops(d, r)), d, r),
               k, CollapsePoint(d, r, RefForDelete(d, r.sc, r.ec)))

DeleteContents(w, k) ==
    IF Collapsed(w[k]) THEN w
    ELSE IF w[k].sc = w[k].ec /\ w.d[w[k].sc].tag = "#text"
    THEN DeleteData(w, w[k].sc, w[k].so, w[k].eo - w[k].so)
    ELSE DeleteAcross(w, k, w.d, w[k])

\* Range.insertNode(node): a text start node is split, the node goes in at
\* the start boundary and a collapsed range is extended over it
\* a range left collapsed by the insertion is extended to (parent, newOff)
ExtendCollapsed(w, k, parent, newOff) ==
    IF Collapsed(w[k])
    THEN SetRange(w, k, [w[k] EXCEPT !.ec = parent, !.eo = newOff])
    ELSE w

\* the number of nodes an insertion of node adds
InsertCount(d, node) == IF d[node].tag = "#frag" THEN Len(d[node].kids) ELSE 1

InsertAtBoundary(w, k, node, parent, ref) ==
    ExtendCollapsed(InsertBefore(w, parent, node, ref), k, parent,
                    IndexBefore(w.d, parent, ref) + InsertCount(w.d, node))

RangeInsertNode(w, k, node) ==
    IF w.d[w[k].sc].tag = "#text"
    THEN InsertAtBoundary(SplitText(w, w[k].sc, w[k].so), k, node, Parent(w.d, w[k].sc), FreshNode(w.d))
    ELSE InsertAtBoundary(w, k, node, w[k].sc,
                          IF w[k].so < Len(w.d[w[k].sc].kids) THEN w.d[w[k].sc].kids[w[k].so + 1]
                          ELSE NoNode)

\* Range.setEndAfter(node) followed by Range.collapse(false)
SetEndAfterAndCollapse(w, k, node) ==
    LET p == Parent(w.d, node)
        o == Index(w.d, node) + 1
    IN  SetRange(w, k, Rng(p, o, p, o))

\* ------------------------------------------------------------------------
\* Helpers of roosterjs-editor-dom
\* ------------------------------------------------------------------------
getTagOfNode(d, n) == IF n = NoNode \/ d[n].tag \in {"#text", "#frag", "free"} THEN "" ELSE d[n].tag

isBlockElement(d, n) == n # NoNode /\ d[n].tag \in {"DIV", "P"}

isVoidHtmlElement(d, n) == n # NoNode /\ d[n].tag = "BR"

RECURSIVE FirstLeafBelow(_, _)
FirstLeafBelow(d, n) == IF d[n].kids = <<>> THEN n ELSE FirstLeafBelow(d, d[n].kids[1])

RECURSIVE LastLeafBelow(_, _)
LastLeafBelow(d, n) == IF d[n].kids = <<>> THEN n ELSE LastLeafBelow(d, d[n].kids[Len(d[n].kids)])

getFirstLeafNode(d, root) == IF d[root].kids = <<>> THEN NoNode ELSE FirstLeafBelow(d, root)

getLastLeafNode(d, root) == IF d[root].kids = <<>> THEN NoNode ELSE LastLeafBelow(d, root)

NoBlock == [startNode |-> NoNode, endNode |-> NoNode]

RECURSIVE BlockContext(_, _, _)
\* nearest inclusive ancestor of n that is a block element, or the root
BlockContext(d, root, n) ==
    IF n = root \/ isBlockElement(d, n) THEN n ELSE BlockContext(d, root, Parent(d, n))

RECURSIVE ChildToward(_, _, _)
\* the child of c on the path down to n
ChildToward(d, c, n) == IF Parent(d, n) = c THEN n ELSE ChildToward(d, c, Parent(d, n))

\* getBlockElementAtNode(root, node): the maximal run of siblings around
\* node that holds no block element and ends with a BR, or the block
\* element that this run fills completely
\* the run of inline siblings around ks[i], the i-th child of c
InlineRun(d, root, c, ks, i) ==
    LET Inline(j) == ~isBlockElement(d, ks[j])
        h == CHOOSE x \in 1 .. i :
               /\ \A j \in x .. i : Inline(j)
               /\ \A j \in x .. i - 1 : d[ks[j]].tag # "BR"
               /\ (x = 1 \/ ~Inline(x - 1) \/ d[ks[x - 1]].tag = "BR")
        t == CHOOSE x \in i .. Len(ks) :
               /\ \A j \in i .. x : Inline(j)
               /\ \A j \in i .. x - 1 : d[ks[j]].tag # "BR"
               /\ (x = Len(ks) \/ ~Inline(x + 1) \/ d[ks[x]].tag = "BR")
    IN  IF h = 1 /\ t = Len(ks) /\ c # root
        THEN [startNode |-> c, endNode |-> c]
        ELSE [startNode |-> ks[h], endNode |-> ks[t]]

\* the block at node inside c, its nearest block-level ancestor or the root
BlockWithin(d, root, node, c) ==
    IF c = node THEN [startNode |-> node, endNode |-> node]
    ELSE InlineRun(d, root, c, d[c].kids, IndexIn(d[c].kids, ChildToward(d, c, node)))

getBlockElementAtNode(d, root, node) ==
    IF ~contains(d, root, node) THEN NoBlock
    ELSE BlockWithin(d, root, node, BlockContext(d, root, node))

\* wrap(node, '<div></div>'): a new DIV takes the node's place and the node
\* becomes its child; returns the world
wrapWith(w, node, new) ==
    AppendChild(IF Parent(w.d, node) = NoNode THEN w
                ELSE InsertBefore(w, Parent(w.d, node), new, node),
                new, node)

wrap(w, node) == wrapWith([w EXCEPT !.d[FreshNode(w.d)] = Elem("DIV", <<>>)], node, FreshNode(w.d))

RECURSIVE MoveChildren(_, _, _)
MoveChildren(w, from, to) ==
    IF w.d[from].kids = <<>> THEN w
    ELSE MoveChildren(AppendChild(w, to, w.d[from].kids[1]), from, to)

\* changeElementTag(element, 'div'): a new DIV receives the children and
\* replaces the element in its parent; the new element is FreshNode(w.d)
ReplaceElement(w, element, new) ==
    IF Parent(w.d, element) = NoNode THEN w
    ELSE InsertChildAt(RemoveNode(w, element), Parent(w.d, element), Index(w.d, element), new)

changeElementTag(w, element) ==
    ReplaceElement(MoveChildren([w EXCEPT !.d[FreshNode(w.d)] = Elem("DIV", <<>>)], element, FreshNode(w.d)),
                   element, FreshNode(w.d))

RECURSIVE NormalizePos(_, _, _)
\* Position.normalize(): descend to the leaf the boundary point denotes
NormalizePos(d, c, o) ==
    IF d[c].tag = "#text" \/ d[c].kids = <<>> THEN <<c, IF d[c].tag = "#text" THEN o ELSE 0>>
    ELSE IF o < Len(d[c].kids) THEN NormalizePos(d, d[c].kids[o + 1], 0)
    ELSE LET l == d[c].kids[Len(d[c].kids)]
         IN  NormalizePos(d, l, NodeLength(d, l))

\* new SelectionRange(rawRange).normalize()
NormalizeRange(d, r) ==
    LET s == NormalizePos(d, r.sc, r.so)
        e == NormalizePos(d, r.ec, r.eo)
    IN  Rng(s[1], s[2], e[1], e[2])

\* ------------------------------------------------------------------------
\* Selection API of the editor core
\* ------------------------------------------------------------------------
InEditor(d, r) ==
    /\ r.sc # NoNode
    /\ InclAncestor(d, ContentDiv, r.sc)
    /\ InclAncestor(d, ContentDiv, r.ec)

\* select(core, range): the range becomes the selection when it lies in the editor
select(w, r) == IF InEditor(w.d, r) THEN [w EXCEPT !.sel = r] ELSE w

\* the collapsed range of Position(node, Position.After)
AfterNode(d, n) ==
    LET p == Parent(d, n)
    IN  IF p = NoNode THEN NoRange ELSE Rng(p, Index(d, n) + 1, p, Index(d, n) + 1)

\* the collapsed range at the very start of the content
StartOfContent(d) ==
    LET leaf == getFirstLeafNode(d, ContentDiv)
    IN  IF leaf = NoNode THEN Rng(ContentDiv, 0, ContentDiv, 0)
        ELSE IF d[leaf].tag = "#text" THEN Rng(leaf, 0, leaf, 0)
        ELSE Rng(Parent(d, leaf), Index(d, leaf), Parent(d, leaf), Index(d, leaf))

\* focus(core): the editor takes focus; without a live selection the cached
\* range is restored, or the caret goes to the start; the cache is cleared
focus(w) ==
    LET s == IF w.sel # NoRange THEN w.sel
             ELSE IF w.cache # NoRange THEN w.cache
             ELSE StartOfContent(w.d)
    IN  [w EXCEPT !.sel = s, !.cache = NoRange]

\* editor.getSelectionRange(): a live pull on the selection, else whatever is
\* in the cache, else null (NoRange) when the editor never got focus
getSelectionRange(w) == IF w.sel # NoRange THEN w.sel ELSE w.cache

\* (mutation: the cached range is preferred over the live one)
RawRangeName_CacheFirst(w) ==
    IF w.cache # NoRange THEN "cache" ELSE IF w.sel # NoRange THEN "sel" ELSE "none"

\* which live range object getLiveRange(core) || core.cachedRange denotes
RawRangeName(w) ==
    IF w.sel # NoRange THEN "sel" ELSE IF w.cache # NoRange THEN "cache" ELSE "none"

\* ------------------------------------------------------------------------
\* coreAPI/insertNode.ts
\* ------------------------------------------------------------------------
Positions == {"Begin", "End", "SelectionStart", "Outside"}

Options == [position : Positions, updateCursor : BOOLEAN,
            replaceSelection : BOOLEAN, insertOnNewLine : BOOLEAN]

\* (mutation: by default the selection is not replaced)
DefaultOption_KeepSelection ==
    [position |-> "SelectionStart", updateCursor |-> TRUE,
     replaceSelection |-> FALSE, insertOnNewLine |-> FALSE]

DefaultOption == [position |-> "SelectionStart", updateCursor |-> TRUE,
                  replaceSelection |-> TRUE, insertOnNewLine |-> FALSE]

\* the caller passed no option
Undefined == [position |-> "undefined", updateCursor |-> FALSE,
              replaceSelection |-> FALSE, insertOnNewLine |-> FALSE]

\* what the placement functions report besides the world: the node that
\* insertBefore/appendChild returned, the tree right after the selection was
\* deleted, clonedRange, the range the node went in at and the DIV a P was
\* retyped to
Placed(w, ins, del, cloned, at, div) ==
    [w |-> w, insertedNode |-> ins, afterDelete |-> del, cloned |-> cloned, at |-> at, div |-> div]

WrapIfNeeded(w, insertedNode, option) ==
    IF insertedNode # NoNode /\ option.insertOnNewLine /\ ~isBlockElement(w.d, insertedNode)
    THEN wrap(w, insertedNode)
    ELSE w

\* (mutation: the node is appended after the content of the first block)
InsertInBlockAtBegin_Append(w, node, refNode) ==
    AppendChild(w, refNode, node)

\* lines 64-84: not on a new line, the node goes inside the first block
InsertInBlockAtBegin(w, node, refNode) ==
    LET d == w.d
    IN  IF d[refNode].kids # <<>>
        THEN InsertBefore(w, refNode, node, d[refNode].kids[1])
        ELSE IF d[refNode].tag = "#text" \/ isVoidHtmlElement(d, refNode)
        THEN InsertBefore(w, Parent(d, refNode), node, refNode)
        ELSE AppendChild(w, refNode, node)

\* lines 57-89: the node goes before or into firstBlock, or into the empty content
InsertBeforeBlock(w, node, option, firstBlock) ==
    IF firstBlock # NoBlock
    THEN IF option.insertOnNewLine
         THEN InsertBefore(w, Parent(w.d, firstBlock.startNode), node, firstBlock.startNode)
         ELSE InsertInBlockAtBegin(w, node, firstBlock.startNode)
    ELSE AppendChild(w, ContentDiv, node)

insertNodeAtBegin(w, node, option) ==
    Placed(WrapIfNeeded(InsertBeforeBlock(w, node, option,
                            getBlockElementAtNode(w.d, ContentDiv, getFirstLeafNode(w.d, ContentDiv))),
                        node, option),
           node, w.d, NoRange, NoRange, NoNode)

\* Node.nextSibling, NoNode for the last child
NextSibling(d, n) ==
    LET p == Parent(d, n)
    IN  IF Index(d, n) + 1 < Len(d[p].kids) THEN d[p].kids[Index(d, n) + 2] ELSE NoNode

\* lines 112-129: not on a new line, the node goes inside the last block
InsertInBlockAtEnd(w, node, refNode) ==
    LET d == w.d
    IN  IF d[refNode].kids # <<>>
        THEN AppendChild(w, refNode, node)
        ELSE IF d[refNode].tag = "#text" \/ isVoidHtmlElement(d, refNode)
        THEN InsertBefore(w, Parent(d, refNode), node, NextSibling(d, refNode))
        ELSE AppendChild(w, refNode, node)

\* lines 103-134: the node goes after or into lastBlock, or into the empty content
InsertAfterBlock(w, node, option, lastBlock) ==
    IF lastBlock # NoBlock
    THEN IF option.insertOnNewLine
         THEN InsertBefore(w, Parent(w.d, lastBlock.endNode), node, NextSibling(w.d, lastBlock.endNode))
         ELSE InsertInBlockAtEnd(w, node, lastBlock.endNode)
    ELSE AppendChild(w, ContentDiv, node)

insertNodeAtEnd(w, node, option) ==
    Placed(WrapIfNeeded(InsertAfterBlock(w, node, option,
                            getBlockElementAtNode(w.d, ContentDiv, getLastLeafNode(w.d, ContentDiv))),
                        node, option),
           node, w.d, NoRange, NoRange, NoNode)

\* lines 166-181: the block ends in a P, which is retyped to a DIV; the
\* range is rebuilt from its normalized copy when both ends are still in
\* the editor
\* lines 169-180: the range is rebuilt from rangeCache when both of its ends
\* are not the new DIV and are still in the editor
RestoreRange(w, k, rangeCache, div) ==
    IF /\ rangeCache.sc # div
       /\ rangeCache.ec # div
       /\ contains(w.d, ContentDiv, rangeCache.sc)
       /\ contains(w.d, ContentDiv, rangeCache.ec)
    THEN [w |-> SetRange(w, "tmp", rangeCache), k |-> "tmp", div |-> div]
    ELSE [w |-> w, k |-> k, div |-> div]

RetypeParagraph(w, k, endNode) ==
    RestoreRange(changeElementTag(w, endNode), k, NormalizeRange(w.d, w[k]), FreshNode(w.d))

\* (mutation: the selection is never deleted)
DeleteSelection_Never(w, k, option) == w

\* lines 147-150: the selected content goes when it is to be replaced
DeleteSelection(w, k, option) ==
    IF option.replaceSelection /\ ~Collapsed(w[k]) THEN DeleteContents(w, k) ELSE w

\* lines 157-182: the range is moved behind the block for a new line, or
\* the P the block ends in is retyped; gives the world, the name of the range
\* to insert at and the DIV of a retyped P
AdjustRange(w, k, option, blockElement) ==
    IF blockElement # NoBlock /\ option.insertOnNewLine
    THEN [w |-> SetEndAfterAndCollapse(w, k, blockElement.endNode), k |-> k, div |-> NoNode]
    ELSE IF blockElement # NoBlock /\ getTagOfNode(w.d, blockElement.endNode) = "P"
    THEN RetypeParagraph(w, k, blockElement.endNode)
    ELSE [w |-> w, k |-> k, div |-> NoNode]

\* line 184: the node the cursor goes after, the last child for a fragment
NodeForCursor(d, node) ==
    IF d[node].tag = "#frag"
    THEN IF d[node].kids = <<>> THEN NoNode ELSE d[node].kids[Len(d[node].kids)]
    ELSE node

\* lines 187-191: the selection after the insertion
SelectAfterInsert(w, option, nodeForCursor, clonedRange) ==
    IF option.updateCursor /\ nodeForCursor # NoNode
    THEN select(w, AfterNode(w.d, nodeForCursor))
    ELSE select(w, clonedRange)

\* lines 184-193 on the adjusted range adj
InsertAtAdjusted(adj, node, option, nodeForCursor, clonedRange, afterDelete) ==
    Placed(SelectAfterInsert(RangeInsertNode(adj.w, adj.k, node), option, nodeForCursor, clonedRange),
           node, afterDelete, clonedRange, adj.w[adj.k], adj.div)

\* lines 153-193 on the world w the deletion left
InsertAfterDelete(w, k, node, option, nodeForCursor) ==
    InsertAtAdjusted(AdjustRange(w, k, option, getBlockElementAtNode(w.d, ContentDiv, w[k].sc)),
                     node, option, nodeForCursor, w[k], w.d)

insertNodeAtSelection(w, node, option) ==
    IF RawRangeName(w) = "none" THEN Placed(w, NoNode, w.d, NoRange, NoRange, NoNode)
    ELSE InsertAfterDelete(DeleteSelection(w, RawRangeName(w), option), RawRangeName(w),
                           node, option, NodeForCursor(w.d, node))

insertNodeOutside(w, node) ==
    Placed(InsertBefore(w, Body, node, NextSibling(w.d, ContentDiv)), node, w.d, NoRange, NoRange, NoNode)

\* lines 34-47: the switch on option.position
InsertAtPosition(w, node, option) ==
    CASE option.position = "Begin" -> insertNodeAtBegin(w, node, option)
      [] option.position = "End" -> insertNodeAtEnd(w, node, option)
      [] option.position = "SelectionStart" -> insertNodeAtSelection(w, node, option)
      [] option.position = "Outside" -> insertNodeOutside(w, node)

\* lines 23-32: the default option, and the focus taken for updateCursor
WithOption(w, node, option) ==
    [placed |-> InsertAtPosition(IF option.updateCursor THEN focus(w) ELSE w, node, option),
     result |-> TRUE]

\* insertNode(core, node, option): the placement and the returned value
insertNode(w, node, opt) == WithOption(w, node, IF opt = Undefined THEN DefaultOption ELSE opt)

\* ------------------------------------------------------------------------
\* The editor as a state machine
\* ------------------------------------------------------------------------
VARIABLES
    dom,        \* the document: contentDiv (node 1) under its parent (node 0)
    sel,        \* the live selection range inside the editor, or NoRange
    cache,      \* core.cachedRange, or NoRange
    pc,         \* "ready" before insertNode was called, "done" after it returned
    call,       \* the arguments of the insertNode call
    pre,        \* the world the call started from
    out         \* the value it returned and what the placement reported

ivars == <<dom, sel, cache, pc, call, pre, out>>

VARIABLES
    depth,      \* the transaction depth counter of the editor
    stack,      \* the addUndoSnapshot calls in progress, outermost first
    upc,        \* "idle", "callback", "raising", "after" or "notify"
    content,    \* version of the content, one more per edit of a callback
    snapshots,  \* the undo snapshots captured, as content versions
    log,        \* what happened since the last top-level call, in order
    cur         \* the current or last top-level call: its arguments, its outcome,
                \* the snapshots it captured and the notifications it emitted

uvars == <<depth, stack, upc, content, snapshots, log, cur>>

VARIABLES
    editor,     \* the current editor of the holder (getCurrentEditor.ts)
    disposed,   \* how often the holder called dispose() on each editor
    passed      \* the arguments of the setCurrentEditor calls so far

hvars == <<editor, disposed, passed>>

vars == <<ivars, uvars, hvars>>

Mk(m) == [n \in NodeIds |-> IF n \in DOMAIN m THEN m[n] ELSE FreeNode]

TextA == Letters(10, MaxTextLen)
TextB == Letters(20, MaxTextLen)
\* the text of the nodes that get inserted
TextX == <<91>>
TextY == <<92>>

Host(ks) == (Body :> Elem("BODY", <<ContentDiv>>)) @@ (ContentDiv :> Elem("ROOT", ks))

\* the contents the editor is created with
InitialContents ==
    { Mk(Host(<<>>)),                                                       \* empty
      Mk(Host(<<2>>) @@ (2 :> Elem("DIV", <<3>>)) @@ (3 :> TextNode(TextA))),   \* <div>a</div>
      Mk(Host(<<2>>) @@ (2 :> Elem("P", <<3>>)) @@ (3 :> TextNode(TextA))),     \* <p>a</p>
      Mk(Host(<<2, 3, 4>>) @@ (2 :> TextNode(TextA)) @@ (3 :> Elem("BR", <<>>))
            @@ (4 :> TextNode(TextB))),                                     \* a<br>b
      Mk(Host(<<2>>) @@ (2 :> Elem("DIV", <<>>))),                          \* <div></div>
      Mk(Host(<<2>>) @@ (2 :> Elem("P", <<>>))),                            \* <p></p>
      Mk(Host(<<2, 4>>) @@ (2 :> Elem("DIV", <<3>>)) @@ (3 :> TextNode(TextA))
            @@ (4 :> Elem("P", <<5>>)) @@ (5 :> TextNode(TextB))),          \* <div>a</div><p>b</p>
      Mk(Host(<<2>>) @@ (2 :> Elem("DIV", <<3, 4, 5>>)) @@ (3 :> TextNode(TextA))
            @@ (4 :> Elem("BR", <<>>)) @@ (5 :> TextNode(TextB))),          \* <div>a<br>b</div>
      Mk(Host(<<2>>) @@ (2 :> Elem("DIV", <<3, 4>>)) @@ (3 :> Elem("BR", <<>>))
            @@ (4 :> TextNode(TextA))) }                                    \* <div><br>a</div>

\* boundary points a selection can have: in the content, not inside a void element
BoundaryPoints(d) ==
    {<<n, o>> : n \in {m \in Descendants(d, ContentDiv) : d[m].tag # "BR"}, o \in 0 .. MaxTextLen + 1}
        \cap {bp \in NodeIds \X (0 .. MaxTextLen + 1) : bp[2] <= NodeLength(d, bp[1])}

\* the caret at the very end of the content
EndOfContent(d) ==
    LET leaf == getLastLeafNode(d, ContentDiv)
    IN  IF leaf = NoNode THEN Rng(ContentDiv, 0, ContentDiv, 0)
        ELSE IF d[leaf].tag = "#text" THEN Rng(leaf, NodeLength(d, leaf), leaf, NodeLength(d, leaf))
        ELSE AfterNode(d, leaf)

\* where a click that brings the user back to the editor puts the caret
ClickCarets(d) == {StartOfContent(d), EndOfContent(d)}

Ranges(d) ==
    {Rng(s[1], s[2], e[1], e[2]) : s \in BoundaryPoints(d), e \in BoundaryPoints(d)}
        \cap {r \in [sc : NodeIds, so : 0 .. MaxTextLen + 1, ec : NodeIds, eo : 0 .. MaxTextLen + 1] :
                 ~Before(d, r.ec, r.eo, r.sc, r.so)}

NodeKinds == {"text", "div", "frag", "fragText"}

\* document.createTextNode / createElement / createDocumentFragment: the node
\* handed to insertNode is FreshNode(d)
CreateNode(d, kind) ==
    LET n == FreshNode(d)
    IN  CASE kind = "text" -> [d EXCEPT ![n] = TextNode(TextX)]
          [] kind = "div" -> [d EXCEPT ![n] = Elem("DIV", <<n + 1>>), ![n + 1] = TextNode(TextX)]
          [] kind = "fragText" -> [d EXCEPT ![n] = Elem("#frag", <<n + 1>>), ![n + 1] = TextNode(TextX)]
          [] kind = "frag" -> [d EXCEPT ![n] = Elem("#frag", <<n + 1, n + 2>>),
                                        ![n + 1] = TextNode(TextX),
                                        ![n + 2] = Elem("DIV", <<n + 3>>),
                                        ![n + 3] = TextNode(TextY)]

NoCall == [node |-> NoNode, kind |-> "", option |-> Undefined]
NoOut == [result |-> FALSE, insertedNode |-> NoNode, afterDelete |-> <<>>, cloned |-> NoRange,
          at |-> NoRange, div |-> NoNode]

NoSource == "none"
ChangeSources == {"Format", "SetContent"}
NoData == "undefined"
Payloads == {"p1", "p2"}

NoCur == [t |-> 0, src |-> NoSource, hasCb |-> FALSE, ret |-> NoData, outcome |-> "none",
          snaps |-> 0, before |-> 0, notes |-> <<>>, calls |-> 0, deepest |-> 0,
          inner |-> {}, innerSrcs |-> {}, afterError |-> FALSE]

\* the holder before any setCurrentEditor call: `let editor: IEditor;`
InitHolder ==
    /\ editor = NoEditor
    /\ disposed = [e \in Editors |-> 0]
    /\ passed = <<>>

InitUndoVars ==
    /\ InitHolder
    /\ depth = 0
    /\ stack = <<>>
    /\ upc = "idle"
    /\ content = 0
    /\ snapshots = <<>>
    /\ log = <<>>
    /\ cur = NoCur

InitInsert ==
    /\ InitUndoVars
    /\ dom \in InitialContents
    /\ sel = NoRange
    /\ cache = NoRange
    /\ pc = "ready"
    /\ call = NoCall
    /\ pre = World(dom, NoRange, NoRange, NoRange)
    /\ out = NoOut

\* the user selects in the editor; coming back to it after a blur (a range is
\* cached) the user clicks at the start or at the end of the content
UserSelect ==
    /\ pc = "ready"
    /\ sel' \in (IF cache = NoRange THEN Ranges(dom) ELSE ClickCarets(dom))
    /\ sel' # sel
    /\ pre' = World(dom, sel', cache, NoRange)
    /\ UNCHANGED <<dom, cache, pc, call, out>>
    /\ UNCHANGED uvars
    /\ UNCHANGED hvars

\* the editor loses focus: the selection is kept in core.cachedRange
Blur ==
    /\ pc = "ready"
    /\ sel # NoRange
    /\ cache' = sel
    /\ sel' = NoRange
    /\ pre' = World(dom, sel', cache', NoRange)
    /\ UNCHANGED <<dom, pc, call, out>>
    /\ UNCHANGED uvars
    /\ UNCHANGED hvars

\* the editor after the call returned r, and what the call reported
Returned(r) ==
    /\ dom' = r.placed.w.d
    /\ sel' = r.placed.w.sel
    /\ cache' = r.placed.w.cache
    /\ out' = [result |-> r.result, insertedNode |-> r.placed.insertedNode,
               afterDelete |-> r.placed.afterDelete, cloned |-> r.placed.cloned,
               at |-> r.placed.at, div |-> r.placed.div]

\* the call on world w, the created node being the fresh node of dom
Called(w, kind, option) ==
    /\ call' = [node |-> FreshNode(dom), kind |-> kind, option |-> option]
    /\ pre' = w
    /\ Returned(insertNode(w, FreshNode(dom), option))

\* editor.insertNode(node, option)
InsertNode ==
    /\ pc = "ready"
    /\ \E kind \in NodeKinds, option \in Options \cup {Undefined} :
         Called(World(CreateNode(dom, kind), sel, cache, NoRange), kind, option)
    /\ pc' = "done"
    /\ UNCHANGED uvars
    /\ UNCHANGED hvars

NextInsert == UserSelect \/ Blur \/ InsertNode

SpecInsert == InitInsert /\ [][NextInsert]_vars

\* ------------------------------------------------------------------------
\* IEditor.addUndoSnapshot(callback?, changeSource?)
\* ------------------------------------------------------------------------
\* a call is nested when the depth counter says a callback is running
IsNested(dp) == dp > 0

\* (mutation: nested calls capture snapshots too)
CapturesSnapshot_Always(nested) == TRUE

\* only the outermost call captures undo snapshots
CapturesSnapshot(nested) == ~nested

\* (mutation: a nested call given a change source notifies as well)
EmitsNotification_Nested(f) == f.src # NoSource

\* (mutation: the outermost call notifies without a change source)
EmitsNotification_NoSource(f) == ~f.nested

\* only the outermost call, and only when given a change source, notifies
EmitsNotification(f) == ~f.nested /\ f.src # NoSource

\* the depth is lowered on every exit path of the callback
DepthAfterReturn(dp) == dp - 1

\* (mutation: the depth is not lowered when the callback raises)
DepthAfterRaise_Kept(dp) == dp

DepthAfterRaise(dp) == dp - 1

\* the call returns to its caller: the code that called it runs on
Resume(st) == IF st = <<>> THEN "idle" ELSE "callback"

Finished(c, how) == IF Len(stack) = 1 THEN [c EXCEPT !.outcome = how] ELSE c

\* the log of a top-level call: "before", "after", "notify" and "error" as
\* they happen, and one "callback" for every stretch of callback activity
\* (nested calls, edits, returns, handled errors)
Logged(l, e) ==
    IF e = "callback" /\ l # <<>> /\ l[Len(l)] = "callback" THEN l ELSE Append(l, e)

\* the call is entered: outermost (depth 0) it captures the snapshot before
\* the operation; the depth is raised around the callback
EnterCall(hasCb, src) ==
    LET nested == IsNested(depth)
        c == IF upc = "idle"
             THEN [NoCur EXCEPT !.t = cur.t + 1, !.src = src, !.hasCb = hasCb,
                                !.outcome = "running", !.calls = 1, !.deepest = 1,
                                !.afterError = (cur.outcome = "error" \/ cur.afterError)]
             ELSE [cur EXCEPT !.deepest = IF Len(stack) + 1 > @ THEN Len(stack) + 1 ELSE @,
                              !.calls = @ + 1, !.innerSrcs = @ \cup {src}]
    IN  /\ stack' = Append(stack, [nested |-> nested, src |-> src, data |-> NoData])
        /\ snapshots' = IF CapturesSnapshot(nested) THEN Append(snapshots, content) ELSE snapshots
        /\ cur' = IF CapturesSnapshot(nested)
                  THEN [c EXCEPT !.snaps = @ + 1, !.before = IF @ = 0 THEN Len(snapshots) + 1 ELSE @]
                  ELSE c
        /\ log' = Logged(IF upc = "idle" THEN <<>> ELSE log,
                         IF CapturesSnapshot(nested) THEN "before" ELSE "callback")
        /\ depth' = IF hasCb THEN depth + 1 ELSE depth
        /\ upc' = IF hasCb THEN "callback" ELSE "after"

AddUndoSnapshot ==
    /\ upc \in {"idle", "callback"}
    /\ Len(stack) < MaxDepth
    /\ upc = "idle" => cur.t < MaxTxns
    /\ upc = "callback" => cur.calls < MaxDepth
    /\ \E hasCb \in BOOLEAN, src \in ChangeSources \cup {NoSource} : EnterCall(hasCb, src)
    /\ UNCHANGED content
    /\ UNCHANGED ivars
    /\ UNCHANGED hvars

\* the running callback edits the content
Edit ==
    /\ upc = "callback"
    /\ content < MaxTxns
    /\ content' = content + 1
    /\ log' = Logged(log, "callback")
    /\ UNCHANGED <<depth, stack, upc, snapshots, cur>>
    /\ UNCHANGED ivars
    /\ UNCHANGED hvars

\* the running callback returns a value; the depth is lowered again
ReturnCall(v) ==
    /\ stack' = [stack EXCEPT ![Len(stack)].data = v]
    /\ cur' = IF Len(stack) = 1 THEN [cur EXCEPT !.ret = v]
              ELSE [cur EXCEPT !.inner = @ \cup {v}]
    /\ depth' = DepthAfterReturn(depth)
    /\ upc' = "after"
    /\ log' = Logged(log, "callback")

Return ==
    /\ upc = "callback"
    /\ \E v \in Payloads : ReturnCall(v)
    /\ UNCHANGED <<content, snapshots>>
    /\ UNCHANGED ivars
    /\ UNCHANGED hvars

\* the running callback raises an error, or lets the error of a nested call
\* pass: the depth is lowered on this exit path too, the call is abandoned
\* and the error reaches the caller
Raise ==
    /\ upc \in {"callback", "raising"}
    /\ depth' = DepthAfterRaise(depth)
    /\ stack' = SubSeq(stack, 1, Len(stack) - 1)
    /\ upc' = IF stack' = <<>> THEN "idle" ELSE "raising"
    /\ cur' = Finished(cur, "error")
    /\ log' = Logged(log, IF Len(stack) = 1 THEN "error" ELSE "callback")
    /\ UNCHANGED <<content, snapshots>>
    /\ UNCHANGED ivars
    /\ UNCHANGED hvars

\* a callback handles the error of the nested call it made and runs on
Catch ==
    /\ upc = "raising"
    /\ upc' = "callback"
    /\ log' = Logged(log, "callback")
    /\ UNCHANGED <<depth, stack, content, snapshots, cur>>
    /\ UNCHANGED ivars
    /\ UNCHANGED hvars

\* after the callback: the outermost call captures the snapshot after the
\* operation; a call that does not notify returns
Complete ==
    /\ upc = "after"
    /\ LET f == stack[Len(stack)]
           rest == SubSeq(stack, 1, Len(stack) - 1)
           c == IF CapturesSnapshot(f.nested) THEN [cur EXCEPT !.snaps = @ + 1] ELSE cur
       IN  /\ snapshots' = IF CapturesSnapshot(f.nested) THEN Append(snapshots, content) ELSE snapshots
           /\ log' = Logged(log, IF CapturesSnapshot(f.nested) THEN "after" ELSE "callback")
           /\ IF EmitsNotification(f)
              THEN /\ upc' = "notify"
                   /\ stack' = stack
                   /\ cur' = c
              ELSE /\ upc' = Resume(rest)
                   /\ stack' = rest
                   /\ cur' = Finished(c, "ok")
    /\ UNCHANGED <<depth, content>>
    /\ UNCHANGED ivars
    /\ UNCHANGED hvars

\* the outermost call, given a change source, emits the content-changed
\* notification with the callback's return value and returns
Notify ==
    /\ upc = "notify"
    /\ LET f == stack[Len(stack)]
           rest == SubSeq(stack, 1, Len(stack) - 1)
           n == [source |-> f.src, data |-> f.data, content |-> content]
       IN  /\ cur' = Finished([cur EXCEPT !.notes = Append(@, n)], "ok")
           /\ stack' = rest
           /\ upc' = Resume(rest)
    /\ log' = Logged(log, "notify")
    /\ UNCHANGED <<depth, content, snapshots>>
    /\ UNCHANGED ivars
    /\ UNCHANGED hvars

InitUndo ==
    /\ InitUndoVars
    /\ dom = Mk(Host(<<>>))
    /\ sel = NoRange
    /\ cache = NoRange
    /\ pc = "ready"
    /\ call = NoCall
    /\ pre = World(dom, NoRange, NoRange, NoRange)
    /\ out = NoOut

NextUndo == AddUndoSnapshot \/ Edit \/ Return \/ Raise \/ Catch \/ Complete \/ Notify

SpecUndo == InitUndo /\ [][NextUndo]_vars

\* ------------------------------------------------------------------------
\* Properties of the undo transaction (checked under SpecUndo)
\* ------------------------------------------------------------------------
Count(seq, e) == Cardinality({i \in 1 .. Len(seq) : seq[i] = e})

C3_Order ==
    LET n == Len(log)
        CallbackEvents == {"callback", "error"}
    IN  /\ n > 0 => log[1] = "before"
        /\ \A i \in 2 .. n : log[i] # "before"
        /\ Count(log, "after") <= 1
        /\ Count(log, "notify") <= 1
        /\ \A i \in 1 .. n : log[i] = "after" =>
              /\ \A j \in 2 .. i - 1 : log[j] \in CallbackEvents
              /\ \A j \in i + 1 .. n : log[j] = "notify"
        /\ \A i \in 1 .. n : log[i] = "notify" => (i = n /\ log[i - 1] = "after")
        /\ cur.snaps = Count(log, "before") + Count(log, "after")
        /\ cur.outcome = "ok" => (cur.snaps = 2 /\ Len(snapshots) >= 2)

\* a top-level call nested three deep, whose callbacks edited the content,
\* has returned after notifying
C3_Witness ==
    /\ cur.outcome = "ok"
    /\ cur.deepest >= 3
    /\ cur.snaps = 2
    /\ log = <<"before", "callback", "after", "notify">>
    /\ snapshots[Len(snapshots)] > snapshots[cur.before]

\* C4: a top-level call that has returned has emitted a notification if and
\* only if it was given a change source; the notification carries that
\* source and the callback's return value; without a change source the two
\* snapshots are captured all the same.
C4_NotifyIffChangeSource ==
    cur.outcome = "ok" =>
        /\ (cur.notes # <<>>) <=> (cur.src # NoSource)
        /\ cur.notes # <<>> =>
              /\ cur.notes[1].source = cur.src
              /\ cur.hasCb => cur.notes[1].data = cur.ret
              /\ cur.notes[1].content = content
        /\ cur.src = NoSource => Count(log, "after") = 1

\* addUndoSnapshot() without arguments, as applyInlineStyle calls it for a
\* collapsed selection: two snapshots and no notification
C4_Witness ==
    /\ cur.outcome = "ok"
    /\ ~cur.hasCb
    /\ cur.src = NoSource
    /\ cur.snaps = 2
    /\ cur.notes = <<>>

\* C5: when a callback raises, the depth is back at its value before the
\* call (the number of callbacks still running); when the error leaves the
\* top-level call, nothing was notified, the snapshot taken before the
\* operation is still the last one captured, the editor is idle at depth 0,
\* and a later top-level call is outermost again: it starts with a snapshot
\* and, given a change source, notifies.
C5_ErrorAbandonsTransaction ==
    /\ upc \in {"callback", "raising"} => depth = Len(stack)
    /\ upc = "idle" => (depth = 0 /\ stack = <<>>)
    /\ cur.outcome = "error" =>
          /\ upc = "idle"
          /\ cur.notes = <<>>
          /\ cur.snaps = 1
          /\ Len(snapshots) = cur.before
          /\ log[Len(log)] = "error"
    /\ cur.afterError =>
          /\ log[1] = "before"
          /\ (cur.outcome = "ok" /\ cur.src # NoSource) => Len(cur.notes) = 1

\* after a call that failed, the next top-level call has notified
C5_Witness ==
    /\ cur.afterError
    /\ cur.outcome = "ok"
    /\ cur.snaps = 2
    /\ Len(cur.notes) = 1

\* ------------------------------------------------------------------------
\* Properties of insertNode (checked under SpecInsert)
\* ------------------------------------------------------------------------
EffOption == IF call.option = Undefined THEN DefaultOption ELSE call.option

\* the world insertNode places the node in: after focus() when updateCursor is set
Focused == IF EffOption.updateCursor THEN focus(pre) ELSE pre

\* the range a SelectionStart insertion resolves, NoRange when there is none
Resolved == IF RawRangeName(Focused) = "none" THEN NoRange ELSE Focused[RawRangeName(Focused)]

\* the nodes that go into the tree: the node, or the children of the fragment
InsTop == IF pre.d[call.node].tag = "#frag" THEN pre.d[call.node].kids ELSE <<call.node>>

InsNodes == Descendants(pre.d, call.node) \ (IF pre.d[call.node].tag = "#frag" THEN {call.node} ELSE {})

RECURSIVE Leaves(_, _)
RECURSIVE LeavesSeq(_, _)
\* the content under n in document order: characters, and 100 + b for a BR b
Leaves(d, n) ==
    IF d[n].tag = "#text" THEN d[n].data
    ELSE IF d[n].tag = "BR" THEN <<100 + n>>
    ELSE LeavesSeq(d, d[n].kids)
LeavesSeq(d, ks) == IF ks = <<>> THEN <<>> ELSE Leaves(d, Head(ks)) \o LeavesSeq(d, Tail(ks))

InsLeaves == Leaves(pre.d, call.node)

IsOld(x) == x \notin SeqRange(InsLeaves)

\* the content of the tree without what was inserted
OldLeaves(d, n) == SelectSeq(Leaves(d, n), IsOld)

\* leaf x of tree d lies in range r
LeafSelected(d, r, x) ==
    \/ \E t \in Descendants(d, ContentDiv) :
          /\ d[t].tag = "#text"
          /\ \E i \in 1 .. Len(d[t].data) :
                /\ d[t].data[i] = x
                /\ ~Before(d, t, i - 1, r.sc, r.so)
                /\ ~Before(d, r.ec, r.eo, t, i)
    \/ \E b \in Descendants(d, ContentDiv) :
          /\ d[b].tag = "BR"
          /\ x = 100 + b
          /\ ContainedIn(d, r, b)

\* number of places node n occupies in tree d
Copies(d, n) == Cardinality({pi \in NodeIds \X (1 .. PoolSize) :
                                pi[2] <= Len(d[pi[1]].kids) /\ d[pi[1]].kids[pi[2]] = n})

OneCopyInContent ==
    \A i \in 1 .. Len(InsTop) : Copies(dom, InsTop[i]) = 1 /\ contains(dom, ContentDiv, InsTop[i])

\* C1 (as claimed): insertNode returns false exactly when a SelectionStart
\* insertion resolves neither a live nor a cached range, and then the
\* document is unchanged; in every other case it returns true.
C1_ReturnsFalseOnlyWithoutRange ==
    pc = "done" =>
        LET noRange == EffOption.position = "SelectionStart" /\ Resolved = NoRange
        IN  /\ noRange => (out.result = FALSE /\ dom = pre.d)
            /\ ~noRange => out.result = TRUE

\* C6: a SelectionStart insertion with replaceSelection over a non-collapsed
\* selection has removed exactly the selected content before the node goes
\* in (the tree right after the deletion holds the unselected content and
\* not the node), the final tree is that content plus one copy of the node;
\* without replaceSelection, or with a collapsed selection, all the content
\* that was there is still there, in order.
C6_ReplaceSelection ==
    (pc = "done" /\ EffOption.position = "SelectionStart" /\ Resolved # NoRange) =>
        LET Kept(x) == ~LeafSelected(pre.d, Resolved, x)
            before == Leaves(pre.d, ContentDiv)
        IN  /\ OneCopyInContent
            /\ IF EffOption.replaceSelection /\ ~Collapsed(Resolved)
               THEN /\ Leaves(out.afterDelete, ContentDiv) = SelectSeq(before, Kept)
                    /\ Descendants(out.afterDelete, ContentDiv) \cap InsNodes = {}
                    /\ OldLeaves(dom, ContentDiv) = SelectSeq(before, Kept)
               ELSE /\ out.afterDelete = pre.d
                    /\ OldLeaves(dom, ContentDiv) = before

\* a selection reaching from one block into the next was replaced
C6_Witness ==
    /\ pc = "done"
    /\ EffOption.position = "SelectionStart"
    /\ EffOption.replaceSelection
    /\ Resolved # NoRange
    /\ ~Collapsed(Resolved)
    /\ Resolved.sc # Resolved.ec
    /\ Len(Leaves(out.afterDelete, ContentDiv)) < Len(Leaves(pre.d, ContentDiv))
    /\ Len(Leaves(out.afterDelete, ContentDiv)) > 0
    /\ OneCopyInContent

\* the node handed to insertNode is itself a block element (a fragment is not)
NodeIsBlock == isBlockElement(pre.d, call.node)

\* n is an element the call created: a DIV that holds exactly what was inserted
IsWrapper(n) == pre.d[n].tag = "free" /\ dom[n].tag = "DIV" /\ dom[n].kids = InsTop

\* the call created no element
NothingCreated == \A n \in NodeIds : pre.d[n].tag = "free" => dom[n].tag = "free"

\* number of blocks the children of the root form
RootBlocks(d) ==
    Cardinality({getBlockElementAtNode(d, ContentDiv, d[ContentDiv].kids[i]).startNode :
                    i \in 1 .. Len(d[ContentDiv].kids)})

\* leaf x of tree d ends at or before the boundary point (c, o)
LeafBeforePoint(d, c, o, x) ==
    \/ \E t \in Descendants(d, ContentDiv) :
          /\ d[t].tag = "#text"
          /\ \E i \in 1 .. Len(d[t].data) : d[t].data[i] = x /\ ~Before(d, c, o, t, i)
    \/ \E b \in Descendants(d, ContentDiv) :
          /\ d[b].tag = "BR"
          /\ x = 100 + b
          /\ ~Before(d, c, o, Parent(d, b), Index(d, b) + 1)

\* C7 (as claimed): after a Begin or End insertion into an empty root the
\* root holds what was inserted and nothing else: the inserted node itself
\* (for a fragment, its children), or, when insertOnNewLine is set and the
\* node is not a block element, one new DIV that wraps what was inserted.
C7_EmptyRootSoleChild ==
    (pc = "done" /\ EffOption.position \in {"Begin", "End"} /\ pre.d[ContentDiv].kids = <<>>) =>
        IF EffOption.insertOnNewLine /\ ~NodeIsBlock
        THEN /\ Len(dom[ContentDiv].kids) = 1
             /\ IsWrapper(dom[ContentDiv].kids[1])
        ELSE dom[ContentDiv].kids = InsTop

\* the start node of the first block of the content the call started from
FirstStart == getBlockElementAtNode(pre.d, ContentDiv, getFirstLeafNode(pre.d, ContentDiv)).startNode

\* the end node of the last block of the content the call started from
LastEnd == getBlockElementAtNode(pre.d, ContentDiv, getLastLeafNode(pre.d, ContentDiv)).endNode

\* the parent the three cases of an inline Begin insertion put the node under
BeginParent ==
    IF pre.d[FirstStart].kids = <<>> /\ (pre.d[FirstStart].tag = "#text" \/ isVoidHtmlElement(pre.d, FirstStart))
    THEN Parent(pre.d, FirstStart)
    ELSE FirstStart

\* the three cases of an inline Begin insertion, all before the content of the first block
BeginPlacement ==
    /\ IF pre.d[FirstStart].kids # <<>>
       THEN dom[FirstStart].kids = InsTop \o pre.d[FirstStart].kids
       ELSE IF pre.d[FirstStart].tag = "#text" \/ isVoidHtmlElement(pre.d, FirstStart)
       THEN dom[BeginParent].kids = InsertAt(pre.d[BeginParent].kids, Index(pre.d, FirstStart), InsTop)
       ELSE dom[FirstStart].kids = InsTop
    /\ Leaves(dom, ContentDiv) = InsLeaves \o Leaves(pre.d, ContentDiv)
    /\ NothingCreated

BeginInline ==
    /\ pc = "done"
    /\ EffOption.position = "Begin"
    /\ ~EffOption.insertOnNewLine
    /\ pre.d[ContentDiv].kids # <<>>

C9_EndOnNewLine ==
    (pc = "done" /\ EffOption.position = "End" /\ EffOption.insertOnNewLine
        /\ pre.d[ContentDiv].kids # <<>>) =>
        LET d == pre.d
            p == Parent(d, LastEnd)
            i == Index(d, LastEnd) + 1
        IN  /\ \A n \in Descendants(d, ContentDiv) \ {p} : dom[n] = d[n]
            /\ IF NodeIsBlock
               THEN dom[p].kids = InsertAt(d[p].kids, i, InsTop)
               ELSE /\ Len(dom[p].kids) = Len(d[p].kids) + 1
                    /\ dom[p].kids = InsertAt(d[p].kids, i, <<dom[p].kids[i + 1]>>)
                    /\ IsWrapper(dom[p].kids[i + 1])

\* the P the block at the insertion point ends in, NoNode when it does not
RetypedP ==
    IF out.cloned = NoRange THEN NoNode
    ELSE LET b == getBlockElementAtNode(out.afterDelete, ContentDiv, out.cloned.sc)
         IN  IF b # NoBlock /\ out.afterDelete[b.endNode].tag = "P" THEN b.endNode ELSE NoNode

\* C10 (as claimed): a SelectionStart insertion with insertOnNewLine=false
\* of content with a block element, where the block at the selection start
\* ends in a P: a new DIV has taken the place of the P, it holds the text
\* the P held in the same order, and what was inserted lies inside that DIV
\* at the selection point, not in the detached P and not outside the DIV.
C10_RetypeParagraph ==
    (/\ pc = "done"
     /\ EffOption.position = "SelectionStart"
     /\ ~EffOption.insertOnNewLine
     /\ Resolved # NoRange
     /\ RetypedP # NoNode
     /\ \E i \in 1 .. Len(InsTop) : isBlockElement(pre.d, InsTop[i])) =>
        LET d == out.afterDelete
            AtOrBefore(x) == LeafBeforePoint(d, out.cloned.sc, out.cloned.so, x)
            After(x) == ~AtOrBefore(x)
        IN  /\ out.div # NoNode
            /\ dom[out.div].tag = "DIV"
            /\ Parent(dom, out.div) = Parent(d, RetypedP)
            /\ ~InclAncestor(dom, ContentDiv, RetypedP)
            /\ OldLeaves(dom, out.div) = Leaves(d, RetypedP)
            /\ \A i \in 1 .. Len(InsTop) :
                  /\ contains(dom, out.div, InsTop[i])
                  /\ ~contains(dom, RetypedP, InsTop[i])
            /\ Leaves(dom, out.div) =
                  SelectSeq(Leaves(d, RetypedP), AtOrBefore) \o InsLeaves
                      \o SelectSeq(Leaves(d, RetypedP), After)

\* the range the precedence live, then cached, then none gives in the world
\* insertNode places the node in
PreferredRange ==
    IF Focused.sel # NoRange THEN Focused.sel
    ELSE IF Focused.cache # NoRange THEN Focused.cache
    ELSE NoRange

\* C11: a SelectionStart insertion works on the live selection when there is
\* one, else on the cached range, else (the editor never had focus) on none
\* and then inserts nothing; this is the range getSelectionRange gives.  The
\* range cloned before the insertion is that range when nothing is deleted,
\* and what a replaceSelection deletes is what that range selects.
C11_RangePrecedence ==
    (pc = "done" /\ EffOption.position = "SelectionStart") =>
        LET Kept(x) == ~LeafSelected(pre.d, PreferredRange, x)
        IN  /\ PreferredRange = getSelectionRange(Focused)
            /\ PreferredRange = NoRange =>
                  (out.insertedNode = NoNode /\ out.cloned = NoRange /\ dom = pre.d)
            /\ PreferredRange # NoRange =>
                  /\ out.insertedNode = call.node
                  /\ IF EffOption.replaceSelection /\ ~Collapsed(PreferredRange)
                     THEN Leaves(out.afterDelete, ContentDiv)
                             = SelectSeq(Leaves(pre.d, ContentDiv), Kept)
                     ELSE out.cloned = PreferredRange

\* the editor has a live selection and a different cached range, and the
\* insertion worked on the live one
C11_Witness ==
    /\ pc = "done"
    /\ EffOption.position = "SelectionStart"
    /\ ~EffOption.updateCursor
    /\ ~EffOption.replaceSelection
    /\ pre.sel # NoRange
    /\ pre.cache # NoRange
    /\ pre.sel # pre.cache
    /\ out.cloned = pre.sel

\* the option the claim spells out
SpelledOutOption ==
    [position |-> "SelectionStart", updateCursor |-> TRUE,
     replaceSelection |-> TRUE, insertOnNewLine |-> FALSE]

\* C12: a call of insertNode without an option leaves the document, the
\* selection and the cached range exactly as the call with {position:
\* SelectionStart, updateCursor: true, replaceSelection: true,
\* insertOnNewLine: false} on the same editor does, and returns the same.
C12_DefaultOption ==
    (pc = "done" /\ call.option = Undefined) =>
        LET r == insertNode(pre, call.node, SpelledOutOption)
        IN  /\ dom = r.placed.w.d
            /\ sel = r.placed.w.sel
            /\ cache = r.placed.w.cache
            /\ out.result = r.result
            /\ out.insertedNode = r.placed.insertedNode
            /\ out.afterDelete = r.placed.afterDelete

\* a call without option replaced a non-collapsed selection and moved the
\* cursor behind the node
C12_Witness ==
    /\ pc = "done"
    /\ call.option = Undefined
    /\ pre.sel # NoRange
    /\ ~Collapsed(pre.sel)
    /\ Len(Leaves(out.afterDelete, ContentDiv)) < Len(Leaves(pre.d, ContentDiv))
    /\ contains(dom, ContentDiv, call.node)
    /\ sel = AfterNode(dom, call.node)

\* a SelectionStart insertion that resolved a range has returned
AtSelectionDone ==
    /\ pc = "done"
    /\ EffOption.position = "SelectionStart"
    /\ Resolved # NoRange

\* the node the cursor goes after: the node, or the last child of the fragment
LastInserted == IF InsTop = <<>> THEN NoNode ELSE InsTop[Len(InsTop)]

\* the range was cloned after a replaceSelection deletion
ClonedAfterDelete ==
    IF EffOption.replaceSelection /\ ~Collapsed(Resolved)
    THEN Collapsed(out.cloned) /\ InEditor(out.afterDelete, out.cloned)
    ELSE out.cloned = Resolved

\* C13 (as claimed): after a SelectionStart insertion with a resolvable
\* range, with updateCursor the selection is collapsed right after the
\* inserted node (the last child of an inserted fragment); without
\* updateCursor the selection is the range cloned before the insertion,
\* which was taken after a replaceSelection deletion and is not the range
\* an insertOnNewLine adjustment moved.
C13_CursorAfterInsert ==
    AtSelectionDone =>
        /\ ClonedAfterDelete
        /\ IF EffOption.updateCursor
           THEN /\ Collapsed(sel)
                /\ sel.sc = Parent(dom, LastInserted)
                /\ sel.so = Index(dom, LastInserted) + 1
           ELSE sel = out.cloned

\* ------------------------------------------------------------------------
\* applyInlineStyle(editor, callback): the formatting command behind
\* setFontName, running on the editor modelled above
\* ------------------------------------------------------------------------
ZWS == 8203         \* the zero width space, '\u200B'

\* the change source the styling transaction is given
StyleChangeSource_Missing == NoSource
StyleChangeSource == "Format"

\* the contents the styled editor is created with
StyleContents ==
    { Mk(Host(<<2>>) @@ (2 :> Elem("DIV", <<3>>)) @@ (3 :> TextNode(TextA))),     \* <div>a</div>
      Mk(Host(<<2>>) @@ (2 :> Elem("DIV", <<3>>)) @@ (3 :> Elem("SPAN", <<4>>))
            @@ (4 :> TextNode(<<ZWS>>))),                                   \* <div><span>ZWS</span></div>
      Mk(Host(<<2>>) @@ (2 :> Elem("DIV", <<3>>)) @@ (3 :> TextNode(<<ZWS>>))),   \* <div>ZWS</div>
      Mk(Host(<<2>>) @@ (2 :> Elem("DIV", <<3, 4, 5>>)) @@ (3 :> TextNode(TextA))
            @@ (4 :> Elem("BR", <<>>)) @@ (5 :> TextNode(TextB))) }         \* <div>a<br>b</div>

\* the cursor already sits in a text node that holds just a ZWS, in a SPAN
isZWSNode(d, tempNode) ==
    /\ tempNode # NoNode
    /\ d[tempNode].tag = "#text"
    /\ d[tempNode].data = <<ZWS>>
    /\ getTagOfNode(d, Parent(d, tempNode)) = "SPAN"

\* the text node is the only child of a SPAN, which takes the style
InOwnSpan(d, node) ==
    /\ getTagOfNode(d, Parent(d, node)) = "SPAN"
    /\ Len(d[Parent(d, node)].kids) = 1

\* applyTextStyle(node, callback): the style goes on the SPAN around the
\* node, a new one unless the node is the only child of a SPAN
applyTextStyle(w, node) ==
    IF InOwnSpan(w.d, node) THEN w
    ELSE wrapWith([w EXCEPT !.d[FreshNode(w.d)] = Elem("SPAN", <<>>)], node, FreshNode(w.d))

\* editor.select(tempNode, PositionType.End)
SelectEnd(w, node) == select(w, Rng(node, NodeLength(w.d, node), node, NodeLength(w.d, node)))

\* range.insertNode(createTextNode(ZWS)) on the range of the selection
InsertZWS(w) == RangeInsertNode([w EXCEPT !.d[FreshNode(w.d)] = TextNode(<<ZWS>>)], "sel", FreshNode(w.d))

RECURSIVE TextsUnder(_, _)
RECURSIVE TextsOf(_, _)
\* the text nodes under n, in document order
TextsUnder(d, n) == IF d[n].tag = "#text" THEN <<n>> ELSE TextsOf(d, d[n].kids)
TextsOf(d, ks) == IF ks = <<>> THEN <<>> ELSE TextsUnder(d, Head(ks)) \o TextsOf(d, Tail(ks))

\* editor.getSelectionTraverser(): the inline elements of the selection,
\* the text nodes the range covers a part of, in document order
SelectionTraverser(d, r) ==
    LET Covered(t) == /\ Before(d, r.sc, r.so, t, NodeLength(d, t))
                      /\ Before(d, t, 0, r.ec, r.eo)
    IN  SelectSeq(TextsUnder(d, ContentDiv), Covered)

\* what the model records of the applyInlineStyle calls: how many there
\* were and, of the last one, the transaction count and the number of
\* snapshots it started from, the branch it took, the text node of the
\* collapsed branch, the inline elements left to style and the elements
\* the callback was applied to
NoStyle == [n |-> 0, t0 |-> 0, snaps0 |-> 0, branch |-> "none", isZWS |-> FALSE,
            temp |-> NoNode, todo |-> <<>>, styled |-> <<>>]

Styling(branch, isZWS, temp, todo) ==
    [n |-> out.n + 1, t0 |-> cur.t, snaps0 |-> Len(snapshots), branch |-> branch,
     isZWS |-> isZWS, temp |-> temp, todo |-> todo, styled |-> <<>>]

\* applyInlineStyle has returned
StyleReturned ==
    \/ pc = "done"
    \/ pc = "returned" /\ upc = "idle"

\* the world shows in the variables
Shown(w) ==
    /\ dom' = w.d
    /\ sel' = w.sel
    /\ cache' = w.cache

\* applyTextStyle(tempNode, callback); editor.select(tempNode, End)
StyleTempNode(w, tempNode) ==
    /\ Shown(SelectEnd(applyTextStyle(w, tempNode), tempNode))
    /\ out' = [out EXCEPT !.temp = tempNode, !.styled = <<Parent(dom', tempNode)>>]
    /\ pc' = "done"

\* the collapsed branch: from a ZWS node in a SPAN straight to the style,
\* else first editor.addUndoSnapshot()
StyleCollapsed(w) ==
    IF isZWSNode(w.d, getSelectionRange(w).sc)
    THEN /\ Shown(SelectEnd(applyTextStyle(w, getSelectionRange(w).sc), getSelectionRange(w).sc))
         /\ out' = [Styling("collapsed", TRUE, getSelectionRange(w).sc, <<>>)
                       EXCEPT !.styled = <<Parent(dom', getSelectionRange(w).sc)>>]
         /\ pc' = "done"
         /\ UNCHANGED uvars
         /\ UNCHANGED hvars
    ELSE /\ Shown(w)
         /\ out' = Styling("collapsed", FALSE, NoNode, <<>>)
         /\ pc' = "snapshot"
         /\ EnterCall(FALSE, NoSource)
         /\ UNCHANGED content

\* the other branch: editor.addUndoSnapshot(callback, ChangeSource.Format)
StyleRange(w) ==
    /\ Shown(w)
    /\ out' = Styling("range", FALSE, NoNode,
                      IF getSelectionRange(w) = NoRange THEN <<>>
                      ELSE SelectionTraverser(w.d, getSelectionRange(w)))
    /\ pc' = "callback"
    /\ EnterCall(TRUE, StyleChangeSource)
    /\ UNCHANGED content

StyleFrom(w) ==
    IF getSelectionRange(w) # NoRange /\ Collapsed(getSelectionRange(w))
    THEN StyleCollapsed(w)
    ELSE StyleRange(w)

\* applyInlineStyle is called, outside any transaction: the editor takes
\* focus and the selection range decides the branch
ApplyInlineStyle ==
    /\ pc = "ready" \/ StyleReturned
    /\ upc = "idle"
    /\ out.n < MaxTxns
    /\ Cardinality({n \in NodeIds : dom[n].tag = "free"}) >= 3
    /\ pre' = World(dom, sel, cache, NoRange)
    /\ call' = call
    /\ StyleFrom(focus(World(dom, sel, cache, NoRange)))
    /\ UNCHANGED hvars

\* the snapshot is taken: the ZWS text node is created, inserted at the
\* range, styled and selected
StyleInsertZWS ==
    /\ pc = "snapshot"
    /\ upc = "idle"
    /\ StyleTempNode(InsertZWS(World(dom, sel, cache, NoRange)), FreshNode(dom))
    /\ content' = content + 1
    /\ UNCHANGED <<call, pre>>
    /\ UNCHANGED <<depth, stack, upc, snapshots, log, cur>>
    /\ UNCHANGED hvars

\* the callback of the transaction styles the next inline element
StyleElement ==
    /\ pc = "callback"
    /\ upc = "callback"
    /\ out.todo # <<>>
    /\ Shown(applyTextStyle(World(dom, sel, cache, NoRange), Head(out.todo)))
    /\ out' = [out EXCEPT !.todo = Tail(@), !.styled = Append(@, Parent(dom', Head(out.todo)))]
    /\ content' = content + 1
    /\ log' = Logged(log, "callback")
    /\ UNCHANGED <<pc, call, pre>>
    /\ UNCHANGED <<depth, stack, upc, snapshots, cur>>
    /\ UNCHANGED hvars

\* editor.select(firstNode, Before, lastNode, After)
SelectStyled(w, styled) ==
    IF styled = <<>> THEN w
    ELSE select(w, Rng(Parent(w.d, styled[1]), Index(w.d, styled[1]),
                       Parent(w.d, styled[Len(styled)]), Index(w.d, styled[Len(styled)]) + 1))

\* no inline element is left: the styled elements are selected and the
\* callback returns, without a value
StyleReturn ==
    /\ pc = "callback"
    /\ upc = "callback"
    /\ out.todo = <<>>
    /\ Shown(SelectStyled(World(dom, sel, cache, NoRange), out.styled))
    /\ pc' = "returned"
    /\ ReturnCall(NoData)
    /\ UNCHANGED <<call, pre, out>>
    /\ UNCHANGED <<content, snapshots>>
    /\ UNCHANGED hvars

InitStyle ==
    /\ InitUndoVars
    /\ dom \in StyleContents
    /\ sel = NoRange
    /\ cache = NoRange
    /\ pc = "ready"
    /\ call = NoCall
    /\ pre = World(dom, NoRange, NoRange, NoRange)
    /\ out = NoStyle

NextStyle ==
    \/ UserSelect \/ Blur
    \/ ApplyInlineStyle \/ StyleInsertZWS \/ StyleElement \/ StyleReturn
    \/ Complete \/ Notify

SpecStyle == InitStyle /\ [][NextStyle]_vars

\* ------------------------------------------------------------------------
\* Properties of applyInlineStyle (checked under SpecStyle)
\* ------------------------------------------------------------------------
\* the range the call got from the editor after it took focus
StyledRange == getSelectionRange(focus(pre))

\* the cursor of the call was in a text node holding just a ZWS, in a SPAN
CursorInZWSSpan ==
    /\ pre.d[StyledRange.sc].tag = "#text"
    /\ pre.d[StyledRange.sc].data = <<ZWS>>
    /\ Parent(pre.d, StyledRange.sc) # NoNode
    /\ pre.d[Parent(pre.d, StyledRange.sc)].tag = "SPAN"

\* the notifications emitted and the snapshots added since the call began
StyleNotes == IF cur.t > out.t0 THEN cur.notes ELSE <<>>
StyleSnaps == Len(snapshots) - out.snaps0

\* the zero width spaces in the content
ZWSCount(d) == Count(Leaves(d, ContentDiv), ZWS)

\* C14: applyInlineStyle, called outside any transaction, on a selection
\* that is not collapsed styles every inline element of the selection
\* inside one addUndoSnapshot transaction, between its two snapshots, and
\* emits exactly one content-changed notification, with source Format; on
\* a collapsed selection it emits no notification, and it adds an undo
\* snapshot and inserts a ZWS text node exactly when the cursor is not
\* already in a ZWS text node inside a SPAN.
C14_StyleNotifications ==
    /\ (out.n > 0 /\ Collapsed(StyledRange)) => StyleNotes = <<>>
    /\ (out.n > 0 /\ ~Collapsed(StyledRange) /\ ~StyleReturned) =>
          /\ StyleNotes = <<>>
          /\ cur.t = out.t0 + 1
          /\ pc = "callback" => (depth = 1 /\ StyleSnaps = 1 /\ Count(log, "after") = 0)
          /\ out.styled # <<>> => pc \in {"callback", "returned"}
    /\ (out.n > 0 /\ StyleReturned) =>
          IF Collapsed(StyledRange)
          THEN IF CursorInZWSSpan
               THEN /\ StyleSnaps = 0
                    /\ ZWSCount(dom) = ZWSCount(pre.d)
                    /\ cur.t = out.t0
               ELSE /\ StyleSnaps > 0
                    /\ ZWSCount(dom) = ZWSCount(pre.d) + 1
                    /\ snapshots[out.snaps0 + 1] = snapshots[Len(snapshots)]
          ELSE /\ Len(StyleNotes) = 1
               /\ StyleNotes[1].source = "Format"
               /\ cur.t = out.t0 + 1
               /\ log = <<"before", "callback", "after", "notify">>
               /\ StyleSnaps = 2
               /\ Len(out.styled) = Len(SelectionTraverser(pre.d, StyledRange))
               /\ snapshots[Len(snapshots)] = snapshots[out.snaps0 + 1] + Len(out.styled)
               /\ depth = 0

\* a selection over both text nodes of <div>a<br>b</div> was styled: two
\* elements in one transaction, one notification with source Format
C14_Witness ==
    /\ StyleReturned
    /\ out.n > 0
    /\ ~Collapsed(StyledRange)
    /\ Len(out.styled) = 2
    /\ \A i \in 1 .. 2 : dom[out.styled[i]].tag = "SPAN"
    /\ Len(cur.notes) = 1
    /\ cur.notes[1].source = "Format"
    /\ sel = Rng(Parent(dom, out.styled[1]), 0, Parent(dom, out.styled[1]), 3)

\* ------------------------------------------------------------------------
\* The holder of the current editor: getCurrentEditor, setCurrentEditor
\* ------------------------------------------------------------------------
getCurrentEditor == editor

\* editor.dispose(), called by the holder
Dispose(e) == [disposed EXCEPT ![e] = @ + 1]

\* setCurrentEditor(newEditor): the editor held so far, if any, is
\* disposed, then newEditor is held
setCurrentEditor(newEditor) ==
    /\ disposed' = IF editor # NoEditor THEN Dispose(editor) ELSE disposed
    /\ editor' = newEditor
    /\ passed' = Append(passed, newEditor)

SetCurrentEditor ==
    /\ Len(passed) < MaxCalls
    /\ \E newEditor \in Editors \cup {NoEditor} : setCurrentEditor(newEditor)
    /\ UNCHANGED ivars
    /\ UNCHANGED uvars

InitCurrent ==
    /\ InitUndoVars
    /\ dom = Mk(Host(<<>>))
    /\ sel = NoRange
    /\ cache = NoRange
    /\ pc = "ready"
    /\ call = NoCall
    /\ pre = World(dom, NoRange, NoRange, NoRange)
    /\ out = NoOut

NextCurrent == SetCurrentEditor

SpecCurrent == InitCurrent /\ [][NextCurrent]_vars

\* ------------------------------------------------------------------------
\* Properties of the holder (checked under SpecCurrent)
\* ------------------------------------------------------------------------
\* the editors that were current earlier and have been replaced
Replaced == {passed[i] : i \in 1 .. Len(passed) - 1} \ {NoEditor}

\* C15 (as claimed): after any sequence of setCurrentEditor calls,
\* getCurrentEditor returns the editor passed to the most recent call,
\* every editor that was current earlier and has been replaced has been
\* disposed, and the editor getCurrentEditor returns has not been disposed
\* by the holder.
C15_CurrentEditorLive ==
    passed # <<>> =>
        /\ getCurrentEditor = passed[Len(passed)]
        /\ \A e \in Replaced : disposed[e] > 0
        /\ getCurrentEditor # NoEditor => disposed[getCurrentEditor] = 0

====
